---------------------------- MODULE Spec2Model ----------------------------
(***************************************************************************)
(* Model of the movie recommendation pipeline of src/terapanfix.py (the    *)
(* notebook copy src/terapan2_notebook.py runs the same steps): the two    *)
(* input tables, the normalized catalog, the TF-IDF encoder, the cosine    *)
(* similarity matrix, the EntityIndex dictionaries and the two query       *)
(* functions.                                                              *)
(*                                                                         *)
(* Strings are sequences of one-character strings, so that lower(), len(), *)
(* split(), join() and the tokenizer are computed character by character.  *)
(* Ratings are counted in half stars (rating 4.0 is 8).                    *)
(***************************************************************************)
EXTENDS Integers, Sequences, FiniteSets, TLC

\* ------------------------------------------------------------------ bounds

\* Rows of ratings.csv read by the run.
MaxRatings == 3

\* Largest k (top_n) passed to a query function.
MaxK == 2

\* ------------------------------------------------------------- characters

UpperAlpha ==
  <<"A","B","C","D","E","F","G","H","I","J","K","L","M",
    "N","O","P","Q","R","S","T","U","V","W","X","Y","Z">>

LowerAlpha ==
  <<"a","b","c","d","e","f","g","h","i","j","k","l","m",
    "n","o","p","q","r","s","t","u","v","w","x","y","z">>

Digits == <<"0","1","2","3","4","5","6","7","8","9">>

Range(s) == {s[i] : i \in DOMAIN s}

\* The small letter of each capital letter.
LowerOf ==
  [c \in Range(UpperAlpha) |->
     LowerAlpha[CHOOSE i \in DOMAIN UpperAlpha : UpperAlpha[i] = c]]

\* The capital letter of each small letter.
UpperOf ==
  [c \in Range(LowerAlpha) |->
     UpperAlpha[CHOOSE i \in DOMAIN LowerAlpha : LowerAlpha[i] = c]]

\* str.lower() on one character.
LowerChar(c) == IF c \in DOMAIN LowerOf THEN LowerOf[c] ELSE c

\* str.upper() on one character.
UpperChar(c) == IF c \in DOMAIN UpperOf THEN UpperOf[c] ELSE c

\* The string as it is, letter case kept.
KeepCase(s) == s

\* str.lower()
Lower(s) == [i \in DOMAIN s |-> LowerChar(s[i])]

\* str.upper()
Upper(s) == [i \in DOMAIN s |-> UpperChar(s[i])]

\* The regular expression class \w.
IsWordChar(c) == c \in Range(UpperAlpha) \cup Range(LowerAlpha) \cup Range(Digits) \cup {"_"}

\* ---------------------------------------------------------------- strings

RECURSIVE SplitFrom(_, _, _, _, _)
SplitFrom(s, sep, i, cur, acc) ==
  IF i > Len(s) THEN Append(acc, cur)
  ELSE IF s[i] = sep THEN SplitFrom(s, sep, i + 1, <<>>, Append(acc, cur))
  ELSE SplitFrom(s, sep, i + 1, Append(cur, s[i]), acc)

\* str.split(sep): the pieces between separators, empty pieces kept.
Split(s, sep) == SplitFrom(s, sep, 1, <<>>, <<>>)

RECURSIVE Join(_, _)
\* sep.join(parts)
Join(parts, sep) ==
  IF Len(parts) = 0 THEN <<>>
  ELSE IF Len(parts) = 1 THEN parts[1]
  ELSE parts[1] \o sep \o Join(Tail(parts), sep)

RECURSIVE IntToStr(_)
\* str(n) for an integer n >= 0: its decimal digits.
IntToStr(n) ==
  IF n < 10 THEN <<Digits[n + 1]>>
  ELSE Append(IntToStr(n \div 10), Digits[(n % 10) + 1])

RECURSIVE UniqueFrom(_, _, _)
UniqueFrom(s, i, acc) ==
  IF i > Len(s) THEN acc
  ELSE IF s[i] \in Range(acc) THEN UniqueFrom(s, i + 1, acc)
  ELSE UniqueFrom(s, i + 1, Append(acc, s[i]))

\* Series.unique().tolist(): the distinct values in first-seen order.
Unique(s) == UniqueFrom(s, 1, <<>>)

\* ----------------------------------------------------------------- inputs

\* movies.csv: movieId, title, genres ('|'-delimited).
MoviePool ==
  << [movieId |-> 1,
      title   |-> <<"T","o","y"," ","S","t","o","r","y"," ","(","1","9","9","5",")">>,
      genres  |-> <<"A","d","v","e","n","t","u","r","e","|",
                    "A","n","i","m","a","t","i","o","n">>],
     [movieId |-> 2,
      title   |-> <<"H","e","a","t"," ","(","1","9","9","5",")">>,
      genres  |-> <<"A","c","t","i","o","n","|","C","r","i","m","e">>],
     [movieId |-> 3,
      title   |-> <<"H","E","A","T"," ","(","1","9","9","5",")">>,
      genres  |-> <<"A","c","t","i","o","n","|","C","r","i","m","e">>],
     [movieId |-> 4,
      title   |-> <<"H","e","a","t"," ","(","1","9","9","5",")">>,
      genres  |-> <<"A","c","t","i","o","n","|","C","r","i","m","e">>],
     [movieId |-> 5,
      title   |-> <<"S","p","e","e","d"," ","(","1","9","9","4",")">>,
      genres  |-> <<"A","c","t","i","o","n">>],
     [movieId |-> 6,
      title   |-> <<"M"," ","(","1","9","3","1",")">>,
      genres  |-> <<"X">>],
     [movieId |-> 7,
      title   |-> <<"F","l","e","d"," ","(","1","9","9","6",")">>,
      genres  |-> <<"A","c","t","i","o","n","|","C","r","i","m","e">>] >>

\* ratings.csv rows the run may read, each the rating of another user:
\* (movieId, rating in half stars).  movieId 9 is rated but is no row of
\* movies.csv.  userId and timestamp are never read.
RatingPool ==
  { [movieId |-> 1, rating |-> 8], [movieId |-> 2, rating |-> 8],
    [movieId |-> 2, rating |-> 4], [movieId |-> 3, rating |-> 6],
    [movieId |-> 4, rating |-> 8], [movieId |-> 5, rating |-> 6],
    [movieId |-> 6, rating |-> 4], [movieId |-> 7, rating |-> 6],
    [movieId |-> 9, rating |-> 8] }

RECURSIVE SeqsUpTo(_, _)
\* The sequences of at most n distinct elements of S.
SeqsUpTo(S, n) ==
  IF n = 0 THEN {<<>>}
  ELSE LET shorter == SeqsUpTo(S, n - 1)
       IN shorter \cup
          UNION {{Append(s, x) : x \in S \ Range(s)} :
                   s \in {t \in shorter : Len(t) = n - 1}}

\* Titles a caller may ask recommend_by_title for.
QueryTitles ==
  { <<"h","e","a","t"," ","(","1","9","9","5",")">>,
    <<"T","o","y"," ","S","t","o","r","y"," ","(","1","9","9","5",")">>,
    <<"m"," ","(","1","9","3","1",")">>,
    <<"R","o","n","i","n">> }

\* Labels a caller may ask recommend_by_label for: two built the way
\* dataset_filter builds them, one built the way dataset_content does, and one
\* of no movie.
QueryLabels ==
  { <<"H","e","a","t"," ","(","1","9","9","5",")"," ","(",
      "A","c","t","i","o","n"," ","C","r","i","m","e",")">>,
    <<"S","p","e","e","d"," ","(","1","9","9","4",")"," ","(",
      "A","c","t","i","o","n",")">>,
    <<"H","e","a","t"," ","(","1","9","9","5",")"," ","(",
      "A","c","t","i","o","n","|","C","r","i","m","e",")">>,
    <<"R","o","n","i","n">> }

\* ------------------------------------------------------------------ state

VARIABLES
  pc,               \* the next step of the script
  tie_order,        \* how this build's quicksort orders equal keys
  df_mov,           \* movies.csv, with the derived columns once added
  df_rat,           \* ratings.csv
  df_merged,        \* the joined view
  dataset_content,  \* the normalized catalog
  dataset_filter,   \* the catalog copy of the collaborative path
  index,            \* the EntityIndex dictionaries and the statistics
  collaborative_based, \* the shuffled (track, name, rating) triples
  split,            \* x, y and their training and validation slices
  failure,          \* the exception that ended the run, or "none"
  tfidf_matrix,     \* one weighted-term row per movie
  cosine_sim,       \* cosine_sim_df: the similarity matrix
  model,            \* the RecommenderNet instance: its stage and its tables
  call              \* the last query call and what it returned

vars == <<pc, tie_order, df_mov, df_rat, df_merged, dataset_content,
          dataset_filter, index, collaborative_based, split, failure,
          tfidf_matrix, cosine_sim, model, call>>

\* No query call is running and the last result has been taken.
NoCall == [fn |-> "none"]

\* Before model = RecommenderNet(...) has run.
NoModel == [stage |-> "uninitialized"]

\* The dictionaries before the script has built them.
NoIndex ==
  [film_ids |-> <<>>, film_to_film_encoded |-> <<>>, film_encoded_to_film |-> <<>>,
   movie_labels |-> <<>>, movie_to_encoded |-> <<>>, encoded_to_movie |-> <<>>,
   num_track |-> 0, num_name |-> 0, min_popularity |-> 0, max_popularity |-> 0]

\* x, y and the slices before the script has cut them.
NoSplit ==
  [x |-> <<>>, y |-> <<>>, train_indices |-> 0,
   x_train |-> <<>>, x_val |-> <<>>, y_train |-> <<>>, y_val |-> <<>>]

Init ==
  /\ pc = "genres_split"
  /\ tie_order \in {"stable", "reversed"}
  /\ df_mov = MoviePool
  /\ df_rat \in SeqsUpTo(RatingPool, MaxRatings)
  /\ df_merged = <<>>
  /\ dataset_content = <<>>
  /\ dataset_filter = <<>>
  /\ index = NoIndex
  /\ collaborative_based = <<>>
  /\ split = NoSplit
  /\ failure = "none"
  /\ tfidf_matrix = <<>>
  /\ cosine_sim = <<>>
  /\ model = NoModel
  /\ call = NoCall

\* ------------------------------------------------------------- normalizer

\* df_mov['genres_split'] = df_mov['genres'].str.split('|')
AddGenresSplit ==
  /\ pc = "genres_split"
  /\ df_mov' = [i \in DOMAIN df_mov |->
                  df_mov[i] @@ [genres_split |-> Split(df_mov[i].genres, "|")]]
  /\ pc' = "title_length"
  /\ UNCHANGED <<tie_order, df_rat, df_merged, dataset_content, dataset_filter,
                 index, tfidf_matrix, cosine_sim, call,
                 collaborative_based, split, failure, model>>

\* df_mov['title_length'] = df_mov['title'].str.len()
AddTitleLength ==
  /\ pc = "title_length"
  /\ df_mov' = [i \in DOMAIN df_mov |->
                  df_mov[i] @@ [title_length |-> Len(df_mov[i].title)]]
  /\ pc' = "merge"
  /\ UNCHANGED <<tie_order, df_rat, df_merged, dataset_content, dataset_filter,
                 index, tfidf_matrix, cosine_sim, call,
                 collaborative_based, split, failure, model>>

\* The rows of `right` whose movieId is `id`, in the order of `right`.
MatchingRows(right, id) == SelectSeq(right, LAMBDA m : m.movieId = id)

RECURSIVE InnerJoinFrom(_, _, _, _)
InnerJoinFrom(left, right, i, acc) ==
  IF i > Len(left) THEN acc
  ELSE LET ms == MatchingRows(right, left[i].movieId)
           rows == [j \in DOMAIN ms |-> left[i] @@ ms[j]]
       IN InnerJoinFrom(left, right, i + 1, acc \o rows)

RECURSIVE LeftJoinFrom(_, _, _, _)
LeftJoinFrom(left, right, i, acc) ==
  IF i > Len(left) THEN acc
  ELSE LET ms == MatchingRows(right, left[i].movieId)
           rows == IF ms = <<>>
                   THEN << left[i] @@ [title |-> <<"n","a","n">>,
                                       genres |-> <<"n","a","n">>,
                                       genres_split |-> << <<"n","a","n">> >>,
                                       title_length |-> 3] >>
                   ELSE [j \in DOMAIN ms |-> left[i] @@ ms[j]]
       IN LeftJoinFrom(left, right, i + 1, acc \o rows)

\* pd.merge(left, right, on='movieId', how='left'): a left row with no match on
\* the right is kept, its right-hand columns missing.
LeftJoin(left, right) == LeftJoinFrom(left, right, 1, <<>>)

\* pd.merge(left, right, on='movieId'): an inner join that keeps the order of
\* the left rows; a left row with no match on the right yields nothing.
InnerJoin(left, right) == InnerJoinFrom(left, right, 1, <<>>)

\* df_merged = pd.merge(df_rat, df_mov, on='movieId')
Merge ==
  /\ pc = "merge"
  /\ df_merged' = InnerJoin(df_rat, df_mov)
  /\ pc' = "dataset_content"
  /\ UNCHANGED <<tie_order, df_mov, df_rat, dataset_content, dataset_filter,
                 index, tfidf_matrix, cosine_sim, call,
                 collaborative_based, split, failure, model>>

RECURSIVE DropDuplicatesFrom(_, _, _)
DropDuplicatesFrom(rows, i, acc) ==
  IF i > Len(rows) THEN acc
  ELSE IF \E j \in DOMAIN acc : acc[j].movieId = rows[i].movieId
       THEN DropDuplicatesFrom(rows, i + 1, acc)
       ELSE DropDuplicatesFrom(rows, i + 1, Append(acc, rows[i]))

\* The rows as they are, no duplicate dropped.
KeepDuplicates(rows) == rows

\* DataFrame.drop_duplicates('movieId').reset_index(drop=True): the first row of
\* each movieId, renumbered.
DropDuplicates(rows) == DropDuplicatesFrom(rows, 1, <<>>)

\* title + " (" + genres.astype(str) + ")"
MovieLabel(title, genres) == title \o <<" ", "(">> \o genres \o <<")">>

\* The genre tags joined by '|', as in the raw genres column, before the title
\* length.
ContentFeaturesPipes(genres_split, title_length) ==
  Join(genres_split, <<"|">>) \o <<" ">> \o IntToStr(title_length)

\* " ".join(genres_split) + " " + title_length.astype(str)
ContentFeatures(genres_split, title_length) ==
  Join(genres_split, <<" ">>) \o <<" ">> \o IntToStr(title_length)

\* dataset_content and its movie_label and content_features columns.
BuildDatasetContent ==
  /\ pc = "dataset_content"
  /\ dataset_content' =
       LET rows == DropDuplicates(df_merged)
       IN [i \in DOMAIN rows |->
             rows[i] @@
             [movie_label |-> MovieLabel(rows[i].title, rows[i].genres),
              content_features |->
                ContentFeatures(rows[i].genres_split, rows[i].title_length)]]
  /\ pc' = "dataset_filter"
  /\ UNCHANGED <<tie_order, df_mov, df_rat, df_merged, dataset_filter, index,
                 tfidf_matrix, cosine_sim, call,
                 collaborative_based, split, failure, model>>

\* ------------------------------------------------------ interaction encoder

\* dataset_filter: the catalog copy with genres_str, its own movie_label (built
\* from the space-joined genres) and content_features.
BuildDatasetFilter ==
  /\ pc = "dataset_filter"
  /\ dataset_filter' =
       [i \in DOMAIN dataset_content |->
          LET r == dataset_content[i]
              genres_str == Join(r.genres_split, <<" ">>)
          IN [movieId |-> r.movieId, title |-> r.title,
              genres_split |-> r.genres_split, title_length |-> r.title_length,
              rating |-> r.rating, genres_str |-> genres_str,
              movie_label |-> MovieLabel(r.title, genres_str),
              content_features |->
                genres_str \o <<" ">> \o IntToStr(r.title_length)]]
  /\ pc' = "film_id"
  /\ UNCHANGED <<tie_order, df_mov, df_rat, df_merged, dataset_content, index,
                 tfidf_matrix, cosine_sim, call,
                 collaborative_based, split, failure, model>>

\* The characters Python's str.split() (no argument) splits on.
IsSpace(c) == c = " "

RECURSIVE WordsFrom(_, _, _, _)
WordsFrom(s, i, cur, acc) ==
  IF i > Len(s) THEN (IF cur = <<>> THEN acc ELSE Append(acc, cur))
  ELSE IF IsSpace(s[i])
       THEN WordsFrom(s, i + 1, <<>>, IF cur = <<>> THEN acc ELSE Append(acc, cur))
       ELSE WordsFrom(s, i + 1, Append(cur, s[i]), acc)

\* str.split(): the runs of non-blank characters.
Words(s) == WordsFrom(s, 1, <<>>, <<>>)

\* s[:n]
Prefix(s, n) == SubSeq(s, 1, IF Len(s) < n THEN Len(s) ELSE n)

\* x.split()[0][:3].upper() + str(index), index being the 0-based row number.
FilmId(title, idx) == Upper(Prefix(Words(title)[1], 3)) \o IntToStr(idx)

\* dataset_filter['film_id']
AddFilmId ==
  /\ pc = "film_id"
  /\ dataset_filter' =
       [i \in DOMAIN dataset_filter |->
          dataset_filter[i] @@ [film_id |-> FilmId(dataset_filter[i].title, i - 1)]]
  /\ pc' = "encode_film"
  /\ UNCHANGED <<tie_order, df_mov, df_rat, df_merged, dataset_content, index,
                 tfidf_matrix, cosine_sim, call,
                 collaborative_based, split, failure, model>>

\* The values of one column, in row order.
Column(rows, col) == [i \in DOMAIN rows |-> rows[i][col]]

\* {x: i for i, x in enumerate(keys)}: a later occurrence of a key overwrites
\* an earlier one.
EncodeDict(keys) ==
  [x \in Range(keys) |->
     (CHOOSE i \in DOMAIN keys :
        keys[i] = x /\ \A j \in DOMAIN keys : keys[j] = x => j <= i) - 1]

\* {i: x for i, x in enumerate(keys)}
DecodeDict(keys) == [i \in 0 .. (Len(keys) - 1) |-> keys[i + 1]]

\* The dictionary keys taken from the column without unique().
IndexKeysNotUnique(rows, col) == Column(rows, col)

\* The keys a dictionary is built from: the column's unique() values.
IndexKeys(rows, col) == Unique(Column(rows, col))

\* film_ids, film_to_film_encoded, film_encoded_to_film
EncodeFilm ==
  /\ pc = "encode_film"
  /\ index' = [index EXCEPT
       !.film_ids = IndexKeys(dataset_filter, "film_id"),
       !.film_to_film_encoded = EncodeDict(IndexKeys(dataset_filter, "film_id")),
       !.film_encoded_to_film = DecodeDict(IndexKeys(dataset_filter, "film_id"))]
  /\ pc' = "encode_label"
  /\ UNCHANGED <<tie_order, df_mov, df_rat, df_merged, dataset_content,
                 dataset_filter, tfidf_matrix, cosine_sim, call,
                 collaborative_based, split, failure, model>>

\* movie_labels, movie_to_encoded, encoded_to_movie
EncodeLabel ==
  /\ pc = "encode_label"
  /\ index' = [index EXCEPT
       !.movie_labels = IndexKeys(dataset_filter, "movie_label"),
       !.movie_to_encoded = EncodeDict(IndexKeys(dataset_filter, "movie_label")),
       !.encoded_to_movie = DecodeDict(IndexKeys(dataset_filter, "movie_label"))]
  /\ pc' = "map_ids"
  /\ UNCHANGED <<tie_order, df_mov, df_rat, df_merged, dataset_content,
                 dataset_filter, tfidf_matrix, cosine_sim, call,
                 collaborative_based, split, failure, model>>

\* dataset_filter["track"] and dataset_filter["name"]: Series.map(dict).
MapIds ==
  /\ pc = "map_ids"
  /\ dataset_filter' =
       [i \in DOMAIN dataset_filter |->
          dataset_filter[i] @@
          [track |-> index.film_to_film_encoded[dataset_filter[i].film_id],
           name |-> index.movie_to_encoded[dataset_filter[i].movie_label]]]
  /\ pc' = "statistics"
  /\ UNCHANGED <<tie_order, df_mov, df_rat, df_merged, dataset_content, index,
                 tfidf_matrix, cosine_sim, call,
                 collaborative_based, split, failure, model>>

\* min(column) / max(column) of a non-empty column.
Min(col) == CHOOSE v \in Range(col) : \A w \in Range(col) : v <= w

Max(col) == CHOOSE v \in Range(col) : \A w \in Range(col) : v >= w

\* num_track, num_name, min_popularity, max_popularity.  Python's min() of an
\* empty column raises ValueError and the run ends there.
Statistics ==
  /\ pc = "statistics"
  /\ IF Len(dataset_filter) = 0
     THEN /\ failure' = "ValueError"
          /\ pc' = "aborted"
          /\ index' = [index EXCEPT
               !.num_track = Cardinality(DOMAIN index.film_to_film_encoded),
               !.num_name = Cardinality(DOMAIN index.encoded_to_movie)]
     ELSE /\ index' = [index EXCEPT
               !.num_track = Cardinality(DOMAIN index.film_to_film_encoded),
               !.num_name = Cardinality(DOMAIN index.encoded_to_movie),
               !.min_popularity = Min(Column(dataset_filter, "rating")),
               !.max_popularity = Max(Column(dataset_filter, "rating"))]
          /\ pc' = "sample"
          /\ UNCHANGED failure
  /\ UNCHANGED <<tie_order, df_mov, df_rat, df_merged, dataset_content,
                 dataset_filter, collaborative_based, split, tfidf_matrix,
                 cosine_sim, call, model>>

\* RandomState(42).permutation(n): the legacy Mersenne Twister seeded with 42,
\* then the Fisher-Yates shuffle of arange(n); positions are 0-based.
Seed42Permutation(n) ==
  CASE n = 0 -> <<>>
    [] n = 1 -> <<0>>
    [] n = 2 -> <<1, 0>>
    [] n = 3 -> <<0, 1, 2>>
    [] n = 4 -> <<1, 3, 0, 2>>
    [] n = 5 -> <<1, 4, 2, 0, 3>>

\* DataFrame.sample(frac = 1) with no random_state: the order comes from the
\* global generator, whose state an earlier draw has advanced, so a second
\* draw gives another order than the first.
SampleAllUnseeded(rows) ==
  IF collaborative_based = <<>> THEN rows
  ELSE [j \in DOMAIN rows |-> rows[Len(rows) + 1 - j]]

\* DataFrame.sample(frac = 1, random_state = 42): every row once, in the order
\* of the seeded permutation.
SampleAll(rows) ==
  LET perm == Seed42Permutation(Len(rows))
  IN [j \in DOMAIN rows |-> rows[perm[j] + 1]]

\* collaborative_based = dataset_filter[["track", "name", "rating"]].sample(...)
Sample ==
  /\ pc = "sample"
  /\ collaborative_based' =
       SampleAll([i \in DOMAIN dataset_filter |->
                    [track |-> dataset_filter[i].track,
                     name |-> dataset_filter[i].name,
                     rating |-> dataset_filter[i].rating]])
  /\ pc' = "split"
  /\ UNCHANGED <<tie_order, df_mov, df_rat, df_merged, dataset_content,
                 dataset_filter, index, split, failure, tfidf_matrix,
                 cosine_sim, call, model>>

\* The rating divided by the maximum, the minimum left out.
NormalizeRatingByMax(r, lo, hi) == [num |-> r, den |-> hi]

\* (x - min_popularity) / (max_popularity - min_popularity), as the fraction
\* num / den.
NormalizeRating(r, lo, hi) == [num |-> r - lo, den |-> hi - lo]

\* 0.8 * n rounded up instead of cut.
TrainIndicesCeil(n) == (8 * n + 9) \div 10

\* int(0.8 * n)
TrainIndices(n) == (8 * n) \div 10

\* x, y, train_indices and the four slices.  The lambda divides Python floats:
\* with max_popularity = min_popularity it raises ZeroDivisionError and the run
\* ends there.
Split80 ==
  /\ pc = "split"
  /\ IF index.max_popularity = index.min_popularity
     THEN /\ failure' = "ZeroDivisionError"
          /\ pc' = "aborted"
          /\ split' = [split EXCEPT
               !.x = [i \in DOMAIN collaborative_based |->
                        <<collaborative_based[i].track, collaborative_based[i].name>>]]
     ELSE LET n == Len(collaborative_based)
              x == [i \in 1 .. n |->
                      <<collaborative_based[i].track, collaborative_based[i].name>>]
              y == [i \in 1 .. n |->
                      NormalizeRating(collaborative_based[i].rating,
                                      index.min_popularity, index.max_popularity)]
              t == TrainIndices(n)
          IN /\ split' = [x |-> x, y |-> y, train_indices |-> t,
                          x_train |-> SubSeq(x, 1, t), x_val |-> SubSeq(x, t + 1, n),
                          y_train |-> SubSeq(y, 1, t), y_val |-> SubSeq(y, t + 1, n)]
             /\ pc' = "tfidf"
             /\ UNCHANGED failure
  /\ UNCHANGED <<tie_order, df_mov, df_rat, df_merged, dataset_content,
                 dataset_filter, index, collaborative_based, tfidf_matrix,
                 cosine_sim, call, model>>

\* -------------------------------------------------- content feature encoder

RECURSIVE TokensFrom(_, _, _, _)
TokensFrom(s, i, cur, acc) ==
  IF i > Len(s) THEN (IF Len(cur) >= 2 THEN Append(acc, cur) ELSE acc)
  ELSE IF IsWordChar(s[i]) THEN TokensFrom(s, i + 1, Append(cur, s[i]), acc)
  ELSE TokensFrom(s, i + 1, <<>>, IF Len(cur) >= 2 THEN Append(acc, cur) ELSE acc)

\* TfidfVectorizer()'s analyzer with its defaults: the text is lower-cased and
\* its tokens are the matches of (?u)\b\w\w+\b, the maximal runs of two or
\* more word characters.
Tokenize(s) == TokensFrom(Lower(s), 1, <<>>, <<>>)

\* The terms of the fitted vocabulary.
Vocabulary(docs) == UNION {Range(docs[i]) : i \in DOMAIN docs}

\* Term frequency: the occurrences of term t in one document.
TermCount(doc, t) == Cardinality({i \in DOMAIN doc : doc[i] = t})

\* Document frequency: the documents that contain term t.
DocFreq(docs, t) == Cardinality({i \in DOMAIN docs : t \in Range(docs[i])})

\* 10 * ln(n), rounded, for n = 1 .. 10.
LnTimes10 == <<0, 7, 11, 14, 16, 18, 19, 21, 22, 23>>

\* idf(t) = ln((1 + N) / (1 + df(t))) + 1 (smooth_idf), in tenths.
Idf(N, df) == 10 + LnTimes10[1 + N] - LnTimes10[1 + df]

\* tf * idf with the term count smoothed by one, which gives every term of the
\* vocabulary a weight in every document.
WeightSmoothed(docs, doc, t) ==
  (TermCount(doc, t) + 1) * Idf(Len(docs), DocFreq(docs, t))

\* tf * idf of term t in document doc, in tenths.
Weight(docs, doc, t) == TermCount(doc, t) * Idf(Len(docs), DocFreq(docs, t))

RECURSIVE SumOver(_, _)
\* The sum of f[t] over the terms t of the set T.
SumOver(f, T) ==
  IF T = {} THEN 0
  ELSE LET t == CHOOSE u \in T : TRUE
       IN f[t] + SumOver(f, T \ {t})

\* One row of tfidf_matrix.  TfidfVectorizer divides the row by its L2 norm;
\* the norm is a square root, so the row keeps the weights w and the squared
\* norm norm2 and stands for the vector w / sqrt(norm2).  A row without any
\* term has norm2 = 0 and stays all zero.
TfidfRow(docs, doc) ==
  LET V == Vocabulary(docs)
      w == [t \in V |-> Weight(docs, doc, t)]
  IN [w |-> w, norm2 |-> SumOver([t \in V |-> w[t] * w[t]], V)]

\* tfidf.fit_transform(content_features)
FitTransform(features) ==
  LET docs == [i \in DOMAIN features |-> Tokenize(features[i])]
  IN [i \in DOMAIN docs |-> TfidfRow(docs, docs[i])]

\* tfidf_matrix.  An empty vocabulary makes fit_transform raise ValueError.
Tfidf ==
  /\ pc = "tfidf"
  /\ LET features == Column(dataset_content, "content_features")
         docs == [i \in DOMAIN features |-> Tokenize(features[i])]
     IN IF Vocabulary(docs) = {}
        THEN /\ failure' = "ValueError"
             /\ pc' = "aborted"
             /\ UNCHANGED tfidf_matrix
        ELSE /\ tfidf_matrix' = FitTransform(features)
             /\ pc' = "cosine"
             /\ UNCHANGED failure
  /\ UNCHANGED <<tie_order, df_mov, df_rat, df_merged, dataset_content,
                 dataset_filter, index, collaborative_based, split, cosine_sim,
                 call, model>>

\* ------------------------------------------------ content similarity engine

\* Cosine with both rows divided by the norm of the first one.
CosineOwnNorm(a, b) ==
  [dot |-> SumOver([t \in DOMAIN a.w |-> a.w[t] * b.w[t]], DOMAIN a.w),
   sq  |-> a.norm2 * a.norm2]

\* Cosine on the raw tf-idf weights (in tenths), no row being normalized.
CosineUnnormalized(a, b) ==
  [dot |-> SumOver([t \in DOMAIN a.w |-> a.w[t] * b.w[t]], DOMAIN a.w),
   sq  |-> 100 * 100]

\* One entry of the similarity matrix: the dot product of two normalized rows,
\* dot / sqrt(sq) with dot the product of the weights and sq the product of
\* the squared norms.  With a zero row both are 0 and the entry is 0.
Cosine(a, b) ==
  [dot |-> SumOver([t \in DOMAIN a.w |-> a.w[t] * b.w[t]], DOMAIN a.w),
   sq  |-> a.norm2 * b.norm2]

\* cosine_similarity(X): every row against every row.
CosineSimilarity(X) ==
  [i \in DOMAIN X |-> [j \in DOMAIN X |-> Cosine(X[i], X[j])]]

\* cosine_sim and cosine_sim_df (rows and columns labelled by movie_label, in
\* catalog order).
CosineSim ==
  /\ pc = "cosine"
  /\ cosine_sim' = CosineSimilarity(tfidf_matrix)
  /\ pc' = "content_ready"
  /\ UNCHANGED <<tie_order, df_mov, df_rat, df_merged, dataset_content,
                 dataset_filter, index, collaborative_based, split, failure,
                 tfidf_matrix, call, model>>

\* --- comparing matrix entries (exact arithmetic on dot / sqrt(sq)) ---

RECURSIVE FracLess(_, _, _, _)
\* a / b < c / d for a, c >= 0 and b, d > 0, by Euclid's algorithm (no product
\* is formed).
FracLess(a, b, c, d) ==
  IF a \div b # c \div d THEN a \div b < c \div d
  ELSE IF c % d = 0 THEN FALSE
  ELSE IF a % b = 0 THEN TRUE
  ELSE FracLess(d, c % d, b, a % b)

Sign(n) == IF n > 0 THEN 1 ELSE IF n < 0 THEN -1 ELSE 0

\* u < v for two matrix entries.
SimLess(u, v) ==
  IF Sign(u.dot) # Sign(v.dot) THEN Sign(u.dot) < Sign(v.dot)
  ELSE IF u.dot = 0 THEN FALSE
  ELSE IF u.dot > 0 THEN FracLess(u.dot * u.dot, u.sq, v.dot * v.dot, v.sq)
  ELSE FracLess(v.dot * v.dot, v.sq, u.dot * u.dot, u.sq)

\* u == v for two matrix entries.
SimEq(u, v) == ~SimLess(u, v) /\ ~SimLess(v, u)

\* The entry is exactly 1.0.
SimIsOne(u) == u.dot > 0 /\ u.dot * u.dot = u.sq

\* The entry is exactly 0.0.
SimIsZero(u) == u.dot = 0

\* 0.0 <= entry <= 1.0
SimInUnit(u) == u.dot >= 0 /\ (u.dot = 0 \/ u.dot * u.dot <= u.sq)

\* content_based_data: the title, movie_label and content_features columns of
\* the catalog, row for row.
content_based_data ==
  [i \in DOMAIN dataset_content |->
     [title |-> dataset_content[i].title,
      movie_label |-> dataset_content[i].movie_label,
      content_features |-> dataset_content[i].content_features]]

\* Row i comes before row j in Series.sort_values(ascending=False).  The call
\* names no sort kind, so it runs numpy's default quicksort, which promises no
\* order among equal keys: `ties` is the order this build gives them, the
\* original one ("stable") or the opposite one ("reversed").
SortsBefore(scores, ties, i, j) ==
  \/ SimLess(scores[j], scores[i])
  \/ /\ SimEq(scores[i], scores[j])
     /\ IF ties = "stable" THEN i < j ELSE i > j

\* The row positions in sorted order: the p-th is the row with p - 1 rows
\* before it.
SortValuesDescending(scores, ties) ==
  [p \in DOMAIN scores |->
     CHOOSE i \in DOMAIN scores :
       Cardinality({j \in DOMAIN scores : SortsBefore(scores, ties, j, i)}) = p - 1]

\* sim_scores.iloc[1:k+1].index for k >= 0: the labels at sorted positions
\* 2 .. k+1 (1-based), as far as they exist.
TopIndices(items, order, k) ==
  {items[order[p]].movie_label : p \in {r \in DOMAIN order : 2 <= r /\ r <= k + 1}}

RECURSIVE FilterRows(_, _, _, _)
FilterRows(items, labels, i, acc) ==
  IF i > Len(items) THEN acc
  ELSE FilterRows(items, labels, i + 1,
                  IF items[i].movie_label \in labels THEN Append(acc, i) ELSE acc)

\* items[items["movie_label"].isin(top_indices)].reset_index(drop=True): the
\* rows whose label is one of top_indices, in catalog order; `rows` holds their
\* positions in the catalog.
IsIn(items, labels) == FilterRows(items, labels, 1, <<>>)

\* content_based_movie_recommendations(title, similarity_data=cosine_sim_df,
\* items=content_based_data, k): what the call returns.
\*   kind "str":   the message string returned when no title matches;
\*   kind "raise": similarity_data[movie_label] selects several columns (the
\*                 label occurs more than once), a DataFrame, whose
\*                 sort_values(ascending=False) raises TypeError;
\*   kind "frame": the DataFrame of recommendations.
content_based_movie_recommendations(title, items, similarity_data, ties, k) ==
  LET match == {i \in DOMAIN items : Lower(items[i].title) = Lower(title)}
  IN IF match = {}
     THEN [kind |-> "str", query |-> 0, rows |-> <<>>]
     ELSE LET q == CHOOSE i \in match : \A j \in match : i <= j
              movie_label == items[q].movie_label
              columns == {j \in DOMAIN items : items[j].movie_label = movie_label}
          IN IF Cardinality(columns) > 1
             THEN [kind |-> "raise", query |-> q, rows |-> <<>>]
             ELSE LET sim_scores == [i \in DOMAIN items |-> similarity_data[i][q]]
                      order == SortValuesDescending(sim_scores, ties)
                      top_indices == TopIndices(items, order, k)
                  IN [kind |-> "frame", query |-> q,
                      rows |-> IsIn(items, top_indices)]

\* The call with a function body that writes a score column into items, the
\* module's content_based_data, instead of working on a copy.
RecommendByTitleWritingItems ==
  /\ pc \in {"content_ready", "ready"}
  /\ call = NoCall
  /\ \E title \in QueryTitles, k \in 0 .. MaxK :
       call' = [fn |-> "content_based_movie_recommendations",
                title |-> title, k |-> k,
                result |-> content_based_movie_recommendations(
                             title, content_based_data, cosine_sim, tie_order, k)]
  /\ dataset_content' =
       [i \in DOMAIN dataset_content |-> dataset_content[i] @@ [score |-> 0]]
  /\ UNCHANGED <<pc, tie_order, df_mov, df_rat, df_merged,
                 dataset_filter, index, collaborative_based, split, failure,
                 tfidf_matrix, cosine_sim, model>>

\* A call of recommend_by_title once cosine_sim_df and the function exist.
RecommendByTitle ==
  /\ pc \in {"content_ready", "ready"}
  /\ call = NoCall
  /\ \E title \in QueryTitles, k \in 0 .. MaxK :
       call' = [fn |-> "content_based_movie_recommendations",
                title |-> title, k |-> k,
                result |-> content_based_movie_recommendations(
                             title, content_based_data, cosine_sim, tie_order, k)]
  /\ UNCHANGED <<pc, tie_order, df_mov, df_rat, df_merged, dataset_content,
                 dataset_filter, index, collaborative_based, split, failure,
                 tfidf_matrix, cosine_sim, model>>

\* ------------------------------------------------------ latent factor model

\* model = RecommenderNet(num_track, num_name, embedding_size): the four tables,
\* one row per integer id, before any training (the embedding vectors are
\* kept as one coordinate each; the biases start at 0).  history is what
\* model.fit has reported: nothing yet.
RecommenderNet(num_track, num_name) ==
  [stage |-> "uninitialized",
   history |-> "none",
   track_embedding |-> [t \in 0 .. (num_track - 1) |-> 1],
   name_embedding  |-> [n \in 0 .. (num_name - 1) |-> 1],
   track_bias      |-> [t \in 0 .. (num_track - 1) |-> 0],
   name_bias       |-> [n \in 0 .. (num_name - 1) |-> 0]]

BuildModel ==
  /\ pc = "content_ready"
  /\ call = NoCall
  /\ model' = RecommenderNet(index.num_track, index.num_name)
  /\ pc' = "compile"
  /\ UNCHANGED <<tie_order, df_mov, df_rat, df_merged, dataset_content,
                 dataset_filter, index, collaborative_based, split, failure,
                 tfidf_matrix, cosine_sim, call>>

\* model.compile(loss, optimizer, metrics)
Compile ==
  /\ pc = "compile"
  /\ call = NoCall
  /\ model' = [model EXCEPT !.stage = "compiled"]
  /\ pc' = "fit"
  /\ UNCHANGED <<tie_order, df_mov, df_rat, df_merged, dataset_content,
                 dataset_filter, index, collaborative_based, split, failure,
                 tfidf_matrix, cosine_sim, call>>

\* The tables gradient descent may leave behind: training moves every weight,
\* and which way depends on the data and on the random initial values.  Two
\* outcomes are kept: the track embeddings grow with the id, or every score
\* ends up equal.
TrainedTrackEmbeddings(num_track) ==
  { [t \in 0 .. (num_track - 1) |-> t],
    [t \in 0 .. (num_track - 1) |-> 0] }

\* What model.fit may leave behind after its 50 epochs: the trained tables
\* with a finite loss in every epoch, or a loss that became NaN in some epoch,
\* after which every weight an update touches is NaN.  fit is called with no
\* callback, so it runs every epoch and returns the history either way.
FitOutcomes(num_track) ==
  {[track_embedding |-> e, history |-> "finite"] :
     e \in TrainedTrackEmbeddings(num_track)}
  \cup {[track_embedding |-> [t \in 0 .. (num_track - 1) |-> 0],
          history |-> "nan"]}

\* history = model.fit(x_train, y_train, batch_size, epochs, validation_data)
Fit ==
  /\ pc = "fit"
  /\ call = NoCall
  /\ \E o \in FitOutcomes(index.num_track) :
       model' = [model EXCEPT !.stage = "trained",
                              !.track_embedding = o.track_embedding,
                              !.history = o.history]
  /\ pc' = "ready"
  /\ UNCHANGED <<tie_order, df_mov, df_rat, df_merged, dataset_content,
                 dataset_filter, index, collaborative_based, split, failure,
                 tfidf_matrix, cosine_sim, call>>

\* 100 * sigmoid(x), rounded, for x = -4 .. 4; beyond that the value no longer
\* changes at this resolution.
SigmoidPct == <<2, 5, 12, 27, 50, 73, 88, 95, 98>>

Sigmoid(x) == SigmoidPct[(IF x < -4 THEN -4 ELSE IF x > 4 THEN 4 ELSE x) + 5]

\* The score of a model whose weights are NaN: NaN, which argsort places after
\* every number (the scores are in hundredths, 0 .. 100).
NaNScore == 101

\* RecommenderNet.call on one (track, name) pair at inference (dropout is the
\* identity outside training): sigmoid(dot + track_bias + name_bias), NaN when
\* the weights are NaN.
Predict(m, track, name) ==
  IF m.history = "nan" THEN NaNScore
  ELSE Sigmoid(m.track_embedding[track] * m.name_embedding[name]
               + m.track_bias[track] + m.name_bias[name])

\* Row i comes before row j in ndarray.argsort() (ascending, numpy's default
\* quicksort: `ties` as for SortsBefore).
ArgsortBefore(scores, ties, i, j) ==
  \/ scores[i] < scores[j]
  \/ /\ scores[i] = scores[j]
     /\ IF ties = "stable" THEN i < j ELSE i > j

\* predicted_scores.argsort(): the positions (1-based here) in ascending order
\* of score.
Argsort(scores, ties) ==
  [p \in DOMAIN scores |->
     CHOOSE i \in DOMAIN scores :
       Cardinality({j \in DOMAIN scores : ArgsortBefore(scores, ties, j, i)}) = p - 1]

\* a[:n] for n >= 1: the first n elements, the lowest scores of an ascending
\* order.
FirstN(a, n) ==
  IF n = 0 \/ n >= Len(a) THEN a ELSE SubSeq(a, 1, n)

\* a[-n:] for n >= 0: the last n elements, and the whole of a when n = 0
\* (a[-0:] is a[0:]) or n >= len(a).
LastN(a, n) ==
  IF n = 0 \/ n >= Len(a) THEN a ELSE SubSeq(a, Len(a) - n + 1, Len(a))

\* a[::-1]
Reverse(a) == [i \in DOMAIN a |-> a[Len(a) + 1 - i]]

\* list(d.values()) of an encoding dictionary: its integers in insertion order.
DictValues(keys, d) == [i \in DOMAIN keys |-> d[keys[i]]]

\* recommend_movies_based_on_title(movie_label, top_n): what the call does.
\* The function has no return statement with a value: it returns None on both
\* paths and writes to standard output.
\*   printed "not_found": the message of the early return;
\*   printed "list":      the header and one line per recommended film_id, a
\*                        movie line when dataset_filter has the film_id
\*                        (row > 0) and a "tidak ditemukan" line otherwise.
\* scored tells whether model.predict was called.
recommend_movies_based_on_title(movie_label, top_n, idx, m, rows, ties) ==
  IF movie_label \notin DOMAIN idx.movie_to_encoded
  THEN [kind |-> "none", printed |-> "not_found", scored |-> FALSE, lines |-> <<>>]
  ELSE LET encoded_movie_label == idx.movie_to_encoded[movie_label]
           all_film_ids == DictValues(idx.film_ids, idx.film_to_film_encoded)
           predicted_scores ==
             [i \in DOMAIN all_film_ids |-> Predict(m, all_film_ids[i], encoded_movie_label)]
           top_indices == Reverse(LastN(Argsort(predicted_scores, ties), top_n))
           recommended_film_encoded_ids ==
             [i \in DOMAIN top_indices |-> all_film_ids[top_indices[i]]]
           recommended_film_ids ==
             [i \in DOMAIN top_indices |->
                idx.film_encoded_to_film[recommended_film_encoded_ids[i]]]
           Info(film_id) == {r \in DOMAIN rows : rows[r].film_id = film_id}
       IN [kind |-> "none", printed |-> "list", scored |-> TRUE,
           lines |-> [i \in DOMAIN top_indices |->
                        [track |-> recommended_film_encoded_ids[i],
                         film_id |-> recommended_film_ids[i],
                         score |-> predicted_scores[top_indices[i]],
                         row |-> IF Info(recommended_film_ids[i]) = {} THEN 0
                                 ELSE CHOOSE r \in Info(recommended_film_ids[i]) :
                                        \A q \in Info(recommended_film_ids[i]) : r <= q]]]

\* The call placed before the statement that fits the model.
RecommendByLabelBeforeFit ==
  /\ pc \in {"fit", "ready"}
  /\ call = NoCall
  /\ \E movie_label \in QueryLabels, top_n \in 0 .. MaxK :
       call' = [fn |-> "recommend_movies_based_on_title",
                movie_label |-> movie_label, top_n |-> top_n,
                result |-> recommend_movies_based_on_title(
                             movie_label, top_n, index, model, dataset_filter,
                             tie_order)]
  /\ UNCHANGED <<pc, tie_order, df_mov, df_rat, df_merged, dataset_content,
                 dataset_filter, index, collaborative_based, split, failure,
                 tfidf_matrix, cosine_sim, model>>

\* A call of recommend_by_label once the model is fitted and the function
\* exists.
RecommendByLabel ==
  /\ pc = "ready"
  /\ call = NoCall
  /\ \E movie_label \in QueryLabels, top_n \in 0 .. MaxK :
       call' = [fn |-> "recommend_movies_based_on_title",
                movie_label |-> movie_label, top_n |-> top_n,
                result |-> recommend_movies_based_on_title(
                             movie_label, top_n, index, model, dataset_filter,
                             tie_order)]
  /\ UNCHANGED <<pc, tie_order, df_mov, df_rat, df_merged, dataset_content,
                 dataset_filter, index, collaborative_based, split, failure,
                 tfidf_matrix, cosine_sim, model>>

\* The caller has the result of the query call; the script is back at top
\* level, where its next statement or another call runs.
Return ==
  /\ call # NoCall
  /\ call' = NoCall
  /\ UNCHANGED <<pc, tie_order, df_mov, df_rat, df_merged, dataset_content,
                 dataset_filter, index, collaborative_based, split, failure,
                 tfidf_matrix, cosine_sim, model>>

Next ==
  \/ AddGenresSplit
  \/ AddTitleLength
  \/ Merge
  \/ BuildDatasetContent
  \/ BuildDatasetFilter
  \/ AddFilmId
  \/ EncodeFilm
  \/ EncodeLabel
  \/ MapIds
  \/ Statistics
  \/ Sample
  \/ Split80
  \/ Tfidf
  \/ CosineSim
  \/ RecommendByTitle
  \/ BuildModel
  \/ Compile
  \/ Fit
  \/ RecommendByLabel
  \/ Return

Spec == Init /\ [][Next]_vars

\* ------------------------------------------------- shuffle and split, again

\* x, y, train_indices and the four slices cut from the shuffled triples `cb`
\* with the rating range lo < hi.
SplitOf(cb, lo, hi) ==
  LET n == Len(cb)
      x == [i \in 1 .. n |-> <<cb[i].track, cb[i].name>>]
      y == [i \in 1 .. n |-> NormalizeRating(cb[i].rating, lo, hi)]
      t == TrainIndices(n)
  IN [x |-> x, y |-> y, train_indices |-> t,
      x_train |-> SubSeq(x, 1, t), x_val |-> SubSeq(x, t + 1, n),
      y_train |-> SubSeq(y, 1, t), y_val |-> SubSeq(y, t + 1, n)]

\* A second run of the shuffle and of the split on the same dataset_filter,
\* once the first run has gone through; `call` keeps what the first run had
\* produced, for the caller to compare.
RerunShuffleSplit ==
  /\ pc \in {"content_ready", "ready"}
  /\ call = NoCall
  /\ LET cb == SampleAll([i \in DOMAIN dataset_filter |->
                            [track |-> dataset_filter[i].track,
                             name |-> dataset_filter[i].name,
                             rating |-> dataset_filter[i].rating]])
     IN /\ collaborative_based' = cb
        /\ split' = SplitOf(cb, index.min_popularity, index.max_popularity)
  /\ call' = [fn |-> "shuffle_then_split",
              first |-> [collaborative_based |-> collaborative_based,
                         split |-> split]]
  /\ UNCHANGED <<pc, tie_order, df_mov, df_rat, df_merged, dataset_content,
                 dataset_filter, index, failure, tfidf_matrix, cosine_sim,
                 model>>

NextRerun ==
  \/ Next
  \/ RerunShuffleSplit

\* The script, with the shuffle and the split run a second time.
SpecRerun == Init /\ [][NextRerun]_vars

\* ------------------------------------------------------------------ claims

\* The similarity matrix has been computed.
MatrixBuilt == pc \in {"content_ready", "compile", "fit", "ready"}

\* Both EntityIndex dictionaries have been built.
IndexBuilt ==
  pc \in {"map_ids", "statistics", "sample", "split", "tfidf", "cosine",
          "content_ready", "compile", "fit", "ready"}

\* The last call was recommend_by_title and its title matched a movie.
TitleCallMatched ==
  /\ call.fn = "content_based_movie_recommendations"
  /\ call.result.query # 0

\* The last call was recommend_by_title and it returned a DataFrame.
TitleCallFrame == TitleCallMatched /\ call.result.kind = "frame"

\* The similarity of catalog row i to the query movie of the last call.
SimToQuery(i) == cosine_sim[i][call.result.query]

\* C1: whenever the title matches a movie, the list recommend_by_title returns
\* does not contain the query movie itself, also when another movie has the
\* same content vector as the query.
C1_NeverReturnsQuery ==
  TitleCallMatched => call.result.query \notin Range(call.result.rows)

\* C2: for a catalog of M movies and a matching title, recommend_by_title
\* returns a list of exactly k movies when 0 <= k < M - 1, also when several
\* movies carry the same composite label.
C2_ExactlyKResults ==
  (TitleCallMatched /\ call.k < Len(dataset_content) - 1)
    => (call.result.kind = "frame" /\ Len(call.result.rows) = call.k)

\* C3: the returned movies are the most similar ones: no movie other than the
\* query that is left out is strictly more similar to the query than a
\* returned movie.
C3_ReturnsMostSimilar ==
  TitleCallFrame =>
    \A r \in Range(call.result.rows) :
      \A s \in DOMAIN dataset_content :
        (s # call.result.query /\ s \notin Range(call.result.rows))
          => ~SimLess(SimToQuery(r), SimToQuery(s))

\* C4: the returned sequence is in descending order of similarity to the
\* query, and movies of equal similarity are in catalog order.
C4_DescendingStableOrder ==
  TitleCallFrame =>
    \A a, b \in DOMAIN call.result.rows :
      a < b =>
        /\ ~SimLess(SimToQuery(call.result.rows[a]), SimToQuery(call.result.rows[b]))
        /\ SimEq(SimToQuery(call.result.rows[a]), SimToQuery(call.result.rows[b]))
             => call.result.rows[a] < call.result.rows[b]

\* C5: when no catalog title equals the queried title (case-insensitively),
\* recommend_by_title signals NotFound as a typed failure, not as a message
\* string returned in place of the result.
C5_NotFoundIsTypedFailure ==
  (/\ call.fn = "content_based_movie_recommendations"
   /\ \A i \in DOMAIN dataset_content :
        Lower(dataset_content[i].title) # Lower(call.title))
    => call.result.kind = "raise"

\* C6: when the label is no key of the name index, recommend_by_label signals
\* NotFound as a typed failure, evaluates no score and lists no recommendation.
C6_LabelNotFoundIsTypedFailure ==
  (/\ call.fn = "recommend_movies_based_on_title"
   /\ call.movie_label \notin DOMAIN index.movie_to_encoded)
    => /\ call.result.kind = "raise"
       /\ ~call.result.scored
       /\ call.result.lines = <<>>

\* C7: every movie's similarity to itself is exactly 1.0, also for a movie
\* whose feature string has no token the encoder keeps.
C7_DiagonalIsOne ==
  MatrixBuilt => \A i \in DOMAIN cosine_sim : SimIsOne(cosine_sim[i][i])

\* C8: the similarity matrix is symmetric: similarity(a, b) = similarity(b, a)
\* for every two movies of the catalog.
C8_Symmetric ==
  MatrixBuilt =>
    \A i, j \in DOMAIN cosine_sim : SimEq(cosine_sim[i][j], cosine_sim[j][i])

\* Two distinct movies with a similarity strictly between 0 and 1.
C8_Witness ==
  /\ MatrixBuilt
  /\ \E i, j \in DOMAIN cosine_sim :
       i # j /\ ~SimIsZero(cosine_sim[i][j]) /\ ~SimIsOne(cosine_sim[i][j])

C10_RoundTrip ==
  IndexBuilt =>
    /\ \A r \in DOMAIN dataset_filter :
         /\ dataset_filter[r].film_id \in DOMAIN index.film_to_film_encoded
         /\ index.film_encoded_to_film[
              index.film_to_film_encoded[dataset_filter[r].film_id]]
              = dataset_filter[r].film_id
         /\ dataset_filter[r].movie_label \in DOMAIN index.movie_to_encoded
         /\ index.encoded_to_movie[
              index.movie_to_encoded[dataset_filter[r].movie_label]]
              = dataset_filter[r].movie_label
    /\ \A i \in DOMAIN index.film_encoded_to_film :
         index.film_to_film_encoded[index.film_encoded_to_film[i]] = i
    /\ \A i \in DOMAIN index.encoded_to_movie :
         index.movie_to_encoded[index.encoded_to_movie[i]] = i

\* The index of a catalog of three movies, two of them under one label.
C10_Witness ==
  /\ IndexBuilt
  /\ Len(dataset_filter) = 3
  /\ Len(index.movie_labels) = 2
  /\ Len(index.film_ids) = 3

\* num_track, num_name and the rating range have been computed.
StatisticsDone ==
  pc \in {"sample", "split", "tfidf", "cosine", "content_ready", "compile",
          "fit", "ready"}

\* The integers an encoding dictionary assigns.
Assigned(d) == {d[x] : x \in DOMAIN d}

\* C11: both EntityIndex mappings map onto the contiguous integers 0 .. M-1,
\* M being the number of normalized movies, so that num_track = num_name = M,
\* also when two movies share title and genres.
C11_IndexOntoContiguous ==
  StatisticsDone =>
    LET M == Len(dataset_filter)
    IN /\ index.num_track = M
       /\ index.num_name = M
       /\ Assigned(index.film_to_film_encoded) = 0 .. (M - 1)
       /\ Assigned(index.movie_to_encoded) = 0 .. (M - 1)

\* x, y and the four slices have been cut (the division went through).
SplitDone == Len(split.y) > 0

\* C12: every normalized target y = (r - min) / (max - min) lies in [0, 1], the
\* example with the minimum rating gets 0 and the one with the maximum rating
\* gets 1, min and max being those of the rating column the targets are
\* computed from.
C12_TargetsInUnitInterval ==
  SplitDone =>
    LET ratings == Column(collaborative_based, "rating")
    IN /\ index.min_popularity = Min(ratings)
       /\ index.max_popularity = Max(ratings)
       /\ \A i \in DOMAIN split.y :
            /\ split.y[i].den > 0
            /\ 0 <= split.y[i].num
            /\ split.y[i].num <= split.y[i].den
            /\ ratings[i] = Min(ratings) => split.y[i].num = 0
            /\ ratings[i] = Max(ratings) => split.y[i].num = split.y[i].den
       /\ \E i \in DOMAIN split.y : split.y[i].num = 0
       /\ \E i \in DOMAIN split.y : split.y[i].num = split.y[i].den

\* Three examples with three distinct ratings: a target 0, a target 1 and one
\* strictly in between.
C12_Witness ==
  /\ SplitDone
  /\ Len(split.y) = 3
  /\ \E i \in DOMAIN split.y :
       0 < split.y[i].num /\ split.y[i].num < split.y[i].den

\* The run ended at the normalization of the ratings: the catalog is not empty
\* and every rating used for the normalization has the same value.
EndedAtNormalization ==
  /\ pc = "aborted"
  /\ Len(dataset_filter) > 0
  /\ index.max_popularity = index.min_popularity

\* C13: when all ratings used for the normalization have one value (min = max),
\* the normalization fails fast with a DegenerateInput condition instead of
\* performing the division by zero.
C13_DegenerateInputRaised ==
  EndedAtNormalization => failure = "DegenerateInput"

C15_SplitAtEightyPercent ==
  SplitDone =>
    LET n == Len(collaborative_based)
        t == Len(split.x_train)
    IN /\ 10 * t <= 8 * n
       /\ 8 * n < 10 * (t + 1)
       /\ Len(split.y_train) = t
       /\ Len(split.x_val) = n - t
       /\ Len(split.y_val) = n - t
       /\ \A i \in 1 .. n :
            LET xi == IF i <= t THEN split.x_train[i] ELSE split.x_val[i - t]
                yi == IF i <= t THEN split.y_train[i] ELSE split.y_val[i - t]
            IN /\ xi = <<collaborative_based[i].track, collaborative_based[i].name>>
               /\ yi.num = collaborative_based[i].rating - index.min_popularity
       /\ \A r \in DOMAIN dataset_filter :
            Cardinality({i \in 1 .. n :
                           (split.x_train \o split.x_val)[i]
                             = <<dataset_filter[r].track, dataset_filter[r].name>>}) = 1

\* Three examples: two in the training slice, one in the validation slice.
C15_Witness ==
  /\ SplitDone
  /\ Len(split.x_train) = 2
  /\ Len(split.x_val) = 1
  /\ Len(split.y_val) = 1

\* dataset_content has been built.
ContentBuilt == pc \notin {"genres_split", "title_length", "merge", "dataset_content"}

\* C16: after normalization the catalog holds at most one record per movie id,
\* whatever the number of rating rows per movie.
C16_OneRecordPerMovie ==
  ContentBuilt =>
    \A i, j \in DOMAIN dataset_content :
      dataset_content[i].movieId = dataset_content[j].movieId => i = j

\* A movie rated twice, so that the joined view holds two rows of it, and a
\* second movie.
C16_Witness ==
  /\ ContentBuilt
  /\ \E i, j \in DOMAIN df_merged :
       i # j /\ df_merged[i].movieId = df_merged[j].movieId
  /\ Len(dataset_content) = 2

\* The rating values the ratings log holds for one movie, in log order.
RatingsOf(id) == Column(SelectSeq(df_rat, LAMBDA r : r.movieId = id), "rating")

RECURSIVE SumSeq(_)
SumSeq(s) == IF s = <<>> THEN 0 ELSE Head(s) + SumSeq(Tail(s))

\* C17: the rating attached to each normalized movie record is the mean of
\* all rating values recorded for that movie in the ratings log.
C17_RatingIsMean ==
  ContentBuilt =>
    \A i \in DOMAIN dataset_content :
      LET rs == RatingsOf(dataset_content[i].movieId)
      IN dataset_content[i].rating * Len(rs) = SumSeq(rs)

\* C18: normalization produces a record for every distinct movie id of the
\* catalog, a movie with no rating row included.
C18_EveryMovieHasRecord ==
  ContentBuilt =>
    \A m \in DOMAIN df_mov :
      \E i \in DOMAIN dataset_content :
        dataset_content[i].movieId = df_mov[m].movieId

\* The movie ids of movies.csv.
CatalogIds == {df_mov[m].movieId : m \in DOMAIN df_mov}

\* The ratings log without the rows of movie ids that movies.csv lacks.
RatingsOfCatalog == SelectSeq(df_rat, LAMBDA r : r.movieId \in CatalogIds)

\* C19: a movie id that occurs in the ratings log but not in the movie catalog
\* appears neither in the joined view, nor in the normalized catalog, nor in
\* the similarity matrix, nor in either EntityIndex, and its presence raises no
\* error: the joined view is the one of the log without those rows.
C19_UnknownMovieDropped ==
  /\ \A i \in DOMAIN df_merged : df_merged[i].movieId \in CatalogIds
  /\ \A i \in DOMAIN dataset_content : dataset_content[i].movieId \in CatalogIds
  /\ \A i \in DOMAIN dataset_filter : dataset_filter[i].movieId \in CatalogIds
  /\ pc \in {"genres_split", "title_length", "merge", "dataset_content",
             "dataset_filter", "film_id", "encode_film", "encode_label",
             "map_ids", "statistics"} => failure = "none"
  /\ pc \notin {"genres_split", "title_length", "merge"} =>
       df_merged = InnerJoin(RatingsOfCatalog, df_mov)
  /\ MatrixBuilt =>
       /\ Len(cosine_sim) = Len(dataset_content)
       /\ \A i \in DOMAIN cosine_sim : Len(cosine_sim[i]) = Len(dataset_content)
  /\ IndexBuilt =>
       /\ \A f \in DOMAIN index.film_to_film_encoded :
            \E r \in DOMAIN dataset_filter : dataset_filter[r].film_id = f
       /\ \A l \in DOMAIN index.movie_to_encoded :
            \E r \in DOMAIN dataset_filter : dataset_filter[r].movie_label = l

\* The ratings log holds a row of a movie id that movies.csv lacks, and the
\* run has built the similarity matrix and the EntityIndex over two movies.
C19_Witness ==
  /\ MatrixBuilt
  /\ \E i \in DOMAIN df_rat : df_rat[i].movieId \notin CatalogIds
  /\ Len(dataset_content) = 2

\* The last call was recommend_by_label, its label is a key of the name
\* EntityIndex and 1 <= k <= N, N being the number of track ids.
LabelCallListed ==
  /\ call.fn = "recommend_movies_based_on_title"
  /\ call.movie_label \in DOMAIN index.movie_to_encoded
  /\ 1 <= call.top_n
  /\ call.top_n <= index.num_track

\* The score the model gives track id t against the label of the last call.
ScoreOfTrack(t) == Predict(model, t, index.movie_to_encoded[call.movie_label])

\* C20: for a label of the name EntityIndex and 1 <= k <= N, recommend_by_label
\* scores the label's id against every track id and lists exactly k distinct
\* track ids by descending predicted score, no track id left out having a
\* strictly higher score than a listed one, each mapped back to an existing
\* movie record.
C20_LabelTopK ==
  LabelCallListed =>
    LET lines == call.result.lines
        listed == {lines[i].track : i \in DOMAIN lines}
    IN /\ call.result.scored
       /\ call.result.printed = "list"
       /\ Len(lines) = call.top_n
       /\ Cardinality(listed) = call.top_n
       /\ listed \subseteq Assigned(index.film_to_film_encoded)
       /\ \A i \in DOMAIN lines : lines[i].score = ScoreOfTrack(lines[i].track)
       /\ \A i, j \in DOMAIN lines : i < j => lines[i].score >= lines[j].score
       /\ \A t \in Assigned(index.film_to_film_encoded) \ listed :
            \A i \in DOMAIN lines : ScoreOfTrack(t) <= lines[i].score
       /\ \A i \in DOMAIN lines :
            /\ lines[i].row \in DOMAIN dataset_filter
            /\ dataset_filter[lines[i].row].film_id = lines[i].film_id
            /\ dataset_filter[lines[i].row].track = lines[i].track

\* A call with k = 1 on an index of at least two track ids that the trained
\* model scores differently.
C20_Witness ==
  /\ LabelCallListed
  /\ call.top_n = 1
  /\ index.num_track >= 2
  /\ \E t, u \in Assigned(index.film_to_film_encoded) :
       ScoreOfTrack(t) < ScoreOfTrack(u)

\* What recommend_by_title returns, on the tables as they are, for `title`
\* and the k of the last call.
TitleResult(title) ==
  content_based_movie_recommendations(title, content_based_data, cosine_sim,
                                      tie_order, call.k)

\* C21: two query titles that differ only in letter case resolve to the same
\* catalog movie and give the same recommend_by_title result (here the title
\* of the last call and the same title in capitals), and when several catalog
\* movies match, the first in catalog order is the query movie.
C21_TitleCaseInsensitive ==
  call.fn = "content_based_movie_recommendations" =>
    /\ TitleResult(Upper(call.title)) = call.result
    /\ \A i \in DOMAIN content_based_data :
         Lower(content_based_data[i].title) = Lower(call.title) =>
           /\ call.result.query # 0
           /\ call.result.query <= i

\* A call whose title matches two catalog movies and is written in another
\* letter case than the first of them, which returned recommendations.
C21_Witness ==
  /\ TitleCallFrame
  /\ Len(call.result.rows) >= 1
  /\ content_based_data[call.result.query].title # call.title
  /\ \E i \in DOMAIN content_based_data :
       /\ i # call.result.query
       /\ Lower(content_based_data[i].title) = Lower(call.title)

\* The feature strings of scenario A.
FeaturesToyStory ==
  <<"A","d","v","e","n","t","u","r","e"," ",
    "A","n","i","m","a","t","i","o","n"," ","1","6">>

FeaturesHeat ==
  <<"A","c","t","i","o","n"," ","C","r","i","m","e"," ","1","1">>

\* The tokens the encoder keeps of the feature string of catalog row i: the
\* terms with a weight in row i of tfidf_matrix.
TokensOfRow(i) == {t \in DOMAIN tfidf_matrix[i].w : tfidf_matrix[i].w[t] > 0}

\* C22: two movies whose content feature strings share no token have
\* similarity exactly 0, as the movies of scenario A with the feature strings
\* "Adventure Animation 16" and "Action Crime 11".
C22_DisjointTokensGiveZero ==
  MatrixBuilt =>
    \A i, j \in DOMAIN cosine_sim :
      (\/ TokensOfRow(i) \cap TokensOfRow(j) = {}
       \/ /\ content_based_data[i].content_features = FeaturesToyStory
          /\ content_based_data[j].content_features = FeaturesHeat)
        => SimIsZero(cosine_sim[i][j])

\* Scenario A: the catalog holds the two movies, each with a non-zero vector.
C22_Witness ==
  /\ MatrixBuilt
  /\ \E i, j \in DOMAIN cosine_sim :
       /\ content_based_data[i].content_features = FeaturesToyStory
       /\ content_based_data[j].content_features = FeaturesHeat
       /\ SimIsZero(cosine_sim[i][j])
       /\ SimIsOne(cosine_sim[i][i])
       /\ SimIsOne(cosine_sim[j][j])

\* The titles, genres and labels of scenario A.
TitleToyStory == <<"T","o","y"," ","S","t","o","r","y"," ","(","1","9","9","5",")">>

TitleHeat == <<"H","e","a","t"," ","(","1","9","9","5",")">>

GenresToyStory ==
  <<"A","d","v","e","n","t","u","r","e","|","A","n","i","m","a","t","i","o","n">>

GenresHeat == <<"A","c","t","i","o","n","|","C","r","i","m","e">>

\* The string with every '|' replaced by a space.
PipesToSpaces(s) == [i \in DOMAIN s |-> IF s[i] = "|" THEN " " ELSE s[i]]

C24_TokensAreWhitespacePieces ==
  MatrixBuilt =>
    \A i \in DOMAIN tfidf_matrix :
      TokensOfRow(i) = Range(Words(content_based_data[i].content_features))

\* track and name have been mapped onto the rows of dataset_filter.
IdsMapped ==
  pc \in {"statistics", "sample", "split", "tfidf", "cosine", "content_ready",
          "compile", "fit", "ready"}

\* C25: every normalized movie has the same integer in both id spaces, its
\* position in the normalized catalog, so every (track, name, rating) triple
\* has track = name.
C25_TrackEqualsName ==
  /\ IdsMapped =>
       \A i \in DOMAIN dataset_filter :
         /\ dataset_filter[i].track = i - 1
         /\ dataset_filter[i].name = i - 1
  /\ \A i \in DOMAIN collaborative_based :
       collaborative_based[i].track = collaborative_based[i].name

\* The place of a stage in Uninitialized -> Compiled -> Trained.
StageRank(stage) ==
  CASE stage = "uninitialized" -> 0
    [] stage = "compiled" -> 1
    [] stage = "trained" -> 2

\* C26: the model goes through Uninitialized, Compiled, Trained (ready for
\* inference) in that order, one stage at a time and never back, and
\* model.predict for recommend_by_label never runs before training has
\* completed.
C26_ModelStagesInOrder ==
  [][/\ StageRank(model'.stage) >= StageRank(model.stage)
     /\ StageRank(model'.stage) <= StageRank(model.stage) + 1
     /\ (call'.fn = "recommend_movies_based_on_title" /\ call'.result.scored)
          => model.stage = "trained"]_vars

\* A recommend_by_label call that scored, on the trained model.
C26_Witness ==
  /\ call.fn = "recommend_movies_based_on_title"
  /\ call.result.scored
  /\ model.stage = "trained"

\* C27: if the training loss becomes NaN in some epoch, the run detects and
\* reports the divergence as a failure instead of going on to inference.
C27_NaNLossReported ==
  (model.stage = "trained" /\ model.history = "nan") =>
    /\ failure # "none"
    /\ pc = "aborted"

\* The tables the two query functions read.
QueryTables ==
  <<cosine_sim, tfidf_matrix, dataset_content, dataset_filter, index, model,
    tie_order>>

\* C28: after construction, every recommend_by_title and recommend_by_label
\* call, found or not found, and its return leave the similarity matrix, the
\* normalized catalog tables, both EntityIndex mappings and the embedding and
\* bias tables unchanged, so that a repeated query reads the same tables.
C28_QueriesReadOnly ==
  [][call' # call => QueryTables' = QueryTables]_vars

\* A query for a title of no movie has just been answered, after the model was
\* trained.
C28_Witness ==
  /\ call.fn = "content_based_movie_recommendations"
  /\ call.result.kind = "str"
  /\ pc = "ready"
  /\ model.stage = "trained"

\* dataset_filter and its movie_label column have been built.
FilterBuilt ==
  pc \notin {"genres_split", "title_length", "merge", "dataset_content",
             "dataset_filter"}

\* C29: for every movie of the normalized catalog the composite label that
\* indexes the similarity matrix (dataset_content.movie_label) is the same
\* string as the one keyed in the name EntityIndex
\* (dataset_filter.movie_label), also for a movie with several genre tags.
C29_SameLabelOnBothPaths ==
  FilterBuilt =>
    \A i \in DOMAIN dataset_content :
      dataset_filter[i].movie_label = dataset_content[i].movie_label

\* C30: for a label of the index and every top_n >= 0,
\* recommend_movies_based_on_title lists exactly min(top_n, N) recommendations,
\* N being the number of track ids; top_n = 0 lists none.
C30_ListsMinOfTopNAndN ==
  (/\ call.fn = "recommend_movies_based_on_title"
   /\ call.movie_label \in DOMAIN index.movie_to_encoded) =>
    LET N == Cardinality(DOMAIN index.film_to_film_encoded)
    IN Len(call.result.lines) = (IF call.top_n < N THEN call.top_n ELSE N)

=============================================================================
